---- MODULE Spec2Model ----
(***************************************************************************)
(* Model of Project1/minesweeper/minesweeper.py: the Minesweeper board,    *)
(* the Sentence class and the MinesweeperAI knowledge engine.              *)
(*                                                                         *)
(* Python lists are sequences (1-based here), Python sets are sets, a      *)
(* Sentence object is the record [cells, count].  Sentence.__eq__ compares *)
(* cells and count, so record equality is Sentence equality.  A `for`      *)
(* loop over a list that is appended to or removed from inside the loop    *)
(* is modelled by its index: the iterator visits index 0, 1, 2, ... and    *)
(* stops when the index reaches the current length of the list.            *)
(***************************************************************************)
EXTENDS Integers, Sequences, FiniteSets, TLC

\* The game that is modelled: MinesweeperAI(height, width) and the board are
\* constructed with these dimensions (a board with corner, edge and interior
\* cells).
Height == 3
Width == 3

\* ---------------------------------------------------------------- bounds
\* the number of mines laid on the board, and of add_knowledge calls
MaxMines == 1
MaxMoves == 3
\* the length of self.knowledge at which the inference loop of add_knowledge
\* is followed no further (the loop can append without end)
MaxKnowledge == 16

Cells == (0 .. Height - 1) \X (0 .. Width - 1)

\* Python's None, as a value comparable with a cell
None == <<>>

VARIABLES
    board,           \* Minesweeper.mines: the mine layout of the game
    moves_made,      \* MinesweeperAI.moves_made
    mines,           \* MinesweeperAI.mines
    safes,           \* MinesweeperAI.safes
    knowledge,       \* MinesweeperAI.knowledge, a list of Sentences
    Sentence_mines,  \* class attribute Sentence.mines
    Sentence_safes,  \* class attribute Sentence.safes
    pc,              \* "idle", "random" inside make_random_move's loop, or
                     \* "add_knowledge" inside add_knowledge's inference loop
    ret,             \* value returned by the last move query, or None
    op,              \* the operation that produced the current state
    calls,           \* number of add_knowledge calls so far
    B_moves_made,    \* a second MinesweeperAI object: its moves_made,
    B_mines,         \* its mines,
    B_safes,         \* its safes,
    B_knowledge,     \* its knowledge
    sen,             \* a Sentence object on its own, or None
    arg              \* the cell passed to the last call on that Sentence

vars == <<board, moves_made, mines, safes, knowledge,
          Sentence_mines, Sentence_safes, pc, ret, op, calls,
          B_moves_made, B_mines, B_safes, B_knowledge, sen, arg>>

bvars == <<B_moves_made, B_mines, B_safes, B_knowledge>>

svars == <<sen, arg>>

aivars == <<moves_made, mines, safes, knowledge, Sentence_mines, Sentence_safes>>

\* ------------------------------------------------------------ Minesweeper
\* Minesweeper.nearby_mines, evaluated on a layout b
nearby_mines(b, cell) ==
    Cardinality({c \in Cells :
        /\ c # cell
        /\ c[1] \in (cell[1] - 1) .. (cell[1] + 1)
        /\ c[2] \in (cell[2] - 1) .. (cell[2] + 1)
        /\ c \in b})

\* --------------------------------------------------------------- Sentence
Sentence(cells, count) == [cells |-> cells, count |-> count]

\* mutant: the count is not decremented
Sentence_mark_mine_keep_count(s, cell) ==
    IF cell \in s.cells
    THEN [cells |-> s.cells \ {cell}, count |-> s.count]
    ELSE s

Sentence_mark_mine(s, cell) ==
    IF cell \in s.cells
    THEN [cells |-> s.cells \ {cell}, count |-> s.count - 1]
    ELSE s

\* mutant: self.cells ^= {cell} in place of the test and the discard
Sentence_mark_safe_toggle(s, cell) ==
    [cells |-> (s.cells \ {cell}) \cup ({cell} \ s.cells), count |-> s.count]

Sentence_mark_safe(s, cell) ==
    IF cell \in s.cells
    THEN [cells |-> s.cells \ {cell}, count |-> s.count]
    ELSE s

\* Sentence.known_mines / known_safes read the class attributes
Sentence_known_mines(s) == Sentence_mines \cap s.cells
Sentence_known_safes(s) == Sentence_safes \cap s.cells

\* ---------------------------------------------------------- MinesweeperAI
\* The engine's fields, and the class attributes its calls write, as one
\* value threaded through the body of a method.
Engine ==
    [moves_made |-> moves_made, mines |-> mines, safes |-> safes,
     knowledge |-> knowledge,
     Sentence_mines |-> Sentence_mines, Sentence_safes |-> Sentence_safes,
     pc |-> pc]

InKnowledge(kb, s) == \E i \in 1 .. Len(kb) : kb[i] = s

\* list.remove(x): delete the first element equal to x
list_remove(kb, s) ==
    LET i == CHOOSE i \in 1 .. Len(kb) :
                 kb[i] = s /\ \A k \in 1 .. (i - 1) : kb[k] # s
    IN  SubSeq(kb, 1, i - 1) \o SubSeq(kb, i + 1, Len(kb))

\* mutant: the loop of mark_mine calls sentence.mark_safe(cell)
mark_mine_calls_mark_safe(e, cell) ==
    [e EXCEPT
       !.mines = @ \cup {cell},
       !.knowledge = [i \in 1 .. Len(@) |-> Sentence_mark_safe(@[i], cell)],
       !.Sentence_safes =
           IF \E i \in 1 .. Len(e.knowledge) : cell \in e.knowledge[i].cells
           THEN @ \cup {cell} ELSE @]

mark_mine(e, cell) ==
    [e EXCEPT
       !.mines = @ \cup {cell},
       !.knowledge = [i \in 1 .. Len(@) |-> Sentence_mark_mine(@[i], cell)],
       !.Sentence_mines =
           IF \E i \in 1 .. Len(e.knowledge) : cell \in e.knowledge[i].cells
           THEN @ \cup {cell} ELSE @]

\* mutant: self.safes = {cell} in place of self.safes.add(cell)
mark_safe_assign(e, cell) ==
    [e EXCEPT
       !.safes = {cell},
       !.knowledge = [i \in 1 .. Len(@) |-> Sentence_mark_safe(@[i], cell)],
       !.Sentence_safes =
           IF \E i \in 1 .. Len(e.knowledge) : cell \in e.knowledge[i].cells
           THEN @ \cup {cell} ELSE @]

mark_safe(e, cell) ==
    [e EXCEPT
       !.safes = @ \cup {cell},
       !.knowledge = [i \in 1 .. Len(@) |-> Sentence_mark_safe(@[i], cell)],
       !.Sentence_safes =
           IF \E i \in 1 .. Len(e.knowledge) : cell \in e.knowledge[i].cells
           THEN @ \cup {cell} ELSE @]

\* `for each_cell in helper: self.mark_mine(each_cell)`; the marks of
\* different cells commute, so the iteration order of the set is immaterial
RECURSIVE mark_mines(_, _)
mark_mines(e, helper) ==
    IF helper = {} THEN e
    ELSE LET c == CHOOSE c \in helper : TRUE
         IN  mark_mines(mark_mine(e, c), helper \ {c})

RECURSIVE mark_safes(_, _)
mark_safes(e, helper) ==
    IF helper = {} THEN e
    ELSE LET c == CHOOSE c \in helper : TRUE
         IN  mark_safes(mark_safe(e, c), helper \ {c})

\* mutant: the test `(x + i, y + j) in self.moves_made` is missing
neighbour_cells_all(cell, mm) ==
    {c \in Cells :
        \E i \in -1 .. 1, j \in -1 .. 1 :
            c = <<cell[1] + i, cell[2] + j>>}

\* add_knowledge, step 3: the neighbours of cell that are not moves made
neighbour_cells(cell, mm) ==
    {c \in Cells :
        \E i \in -1 .. 1, j \in -1 .. 1 :
            /\ c = <<cell[1] + i, cell[2] + j>>
            /\ c \notin mm}

\* add_knowledge, the inference loops: `for first_sentence in knowledge:
\* for second_sentence in knowledge:`; both iterators see the sentences
\* appended while they run.  The loops are followed until the list has
\* MaxKnowledge sentences.
RECURSIVE infer_inner(_, _, _)
infer_inner(kb, i, j) ==
    IF j > Len(kb) \/ Len(kb) >= MaxKnowledge THEN kb
    ELSE LET first_sentence == kb[i]
             second_sentence == kb[j]
             sent == Sentence(first_sentence.cells \ second_sentence.cells,
                              first_sentence.count - second_sentence.count)
         IN  IF first_sentence = second_sentence
             THEN infer_inner(kb, i, j + 1)
             ELSE IF /\ second_sentence.cells \subseteq first_sentence.cells
                     /\ second_sentence.cells # first_sentence.cells
                  THEN IF ~InKnowledge(kb, sent)
                       THEN infer_inner(Append(kb, sent), i, j + 1)
                       ELSE infer_inner(kb, i, j + 1)
                  ELSE infer_inner(kb, i, j + 1)

RECURSIVE infer(_, _)
infer(kb, i) ==
    IF i > Len(kb) \/ Len(kb) >= MaxKnowledge THEN kb
    ELSE infer(infer_inner(kb, i, 1), i + 1)

\* add_knowledge, the marking loop: `for sentence in self.knowledge:` with
\* self.knowledge.remove(sentence) inside; helper is created once, before
\* the loop, and is never cleared
RECURSIVE mark_loop(_, _, _)
mark_loop(e, idx, helper) ==
    IF idx > Len(e.knowledge) THEN e
    ELSE LET sentence == e.knowledge[idx]
             h == helper \cup sentence.cells
             removed == [e EXCEPT !.knowledge = list_remove(@, sentence)]
         IN  IF Cardinality(sentence.cells) = sentence.count
             THEN mark_loop(mark_mines(removed, h), idx + 1, h)
             ELSE IF sentence.count = 0
                  THEN mark_loop(mark_safes(removed, h), idx + 1, h)
                  ELSE mark_loop(e, idx + 1, helper)

\* mutant: moves_made ^= {cell} in place of moves_made |= {cell}
observed_toggle_move(e, cell, count) ==
    LET e1 == [e EXCEPT !.moves_made = (@ \ {cell}) \cup ({cell} \ @)]
        e2 == mark_safe(e1, cell)
    IN  [e2 EXCEPT !.knowledge =
            Append(@, Sentence(neighbour_cells(cell, e2.moves_made), count))]

\* The state of the engine at the end of step 3 (the new sentence appended)
observed(e, cell, count) ==
    LET e1 == [e EXCEPT !.moves_made = @ \cup {cell}]
        e2 == mark_safe(e1, cell)
    IN  [e2 EXCEPT !.knowledge =
            Append(@, Sentence(neighbour_cells(cell, e2.moves_made), count))]

\* mutant: step 2, self.mark_safe(cell), is missing
add_knowledge_unmarked(e, cell, count) ==
    LET e1 == [e EXCEPT !.moves_made = @ \cup {cell}]
        e3 == [e1 EXCEPT !.knowledge =
                  Append(@, Sentence(neighbour_cells(cell, e1.moves_made), count))]
        e4 == [e3 EXCEPT !.knowledge = infer(@, 1)]
    IN  IF Len(e4.knowledge) >= MaxKnowledge
        THEN [e4 EXCEPT !.pc = "add_knowledge"]
        ELSE mark_loop(e4, 1, {})

\* add_knowledge; a call whose inference loop is still appending when the
\* list has MaxKnowledge sentences is left inside that loop
add_knowledge(e, cell, count) ==
    LET e3 == observed(e, cell, count)
        e4 == [e3 EXCEPT !.knowledge = infer(@, 1)]
    IN  IF Len(e4.knowledge) >= MaxKnowledge
        THEN [e4 EXCEPT !.pc = "add_knowledge"]
        ELSE mark_loop(e4, 1, {})

\* The iteration order of a Python set is not fixed by the language.  An
\* order is a list of all cells; iterating a set under it visits the set's
\* cells in the order in which they come in the list.
RowMajor ==
    [k \in 1 .. Height * Width |-> <<(k - 1) \div Width, (k - 1) % Width>>]

Descending ==
    [k \in 1 .. Height * Width |-> RowMajor[Height * Width + 1 - k]]

ColumnMajor ==
    [k \in 1 .. Height * Width |-> <<(k - 1) % Height, (k - 1) \div Height>>]

Orders == {RowMajor, Descending, ColumnMajor}

\* `for each_cell in helper: self.mark_mine(each_cell)`, iterating helper
\* under the given order, from position k of it
RECURSIVE mark_mines_in(_, _, _, _)
mark_mines_in(e, helper, order, k) ==
    IF k > Len(order) THEN e
    ELSE IF order[k] \in helper
         THEN mark_mines_in(mark_mine(e, order[k]), helper, order, k + 1)
         ELSE mark_mines_in(e, helper, order, k + 1)

\* mutant: the loop over helper ends after its first cell
mark_safes_in_first(e, helper, order, k) ==
    IF helper = {} THEN e
    ELSE LET j == CHOOSE j \in 1 .. Len(order) :
                      /\ order[j] \in helper
                      /\ \A l \in 1 .. (j - 1) : order[l] \notin helper
         IN  mark_safe(e, order[j])

RECURSIVE mark_safes_in(_, _, _, _)
mark_safes_in(e, helper, order, k) ==
    IF k > Len(order) THEN e
    ELSE IF order[k] \in helper
         THEN mark_safes_in(mark_safe(e, order[k]), helper, order, k + 1)
         ELSE mark_safes_in(e, helper, order, k + 1)

\* the marking loop, with helper iterated under the given order
RECURSIVE mark_loop_in(_, _, _, _)
mark_loop_in(e, idx, helper, order) ==
    IF idx > Len(e.knowledge) THEN e
    ELSE LET sentence == e.knowledge[idx]
             h == helper \cup sentence.cells
             removed == [e EXCEPT !.knowledge = list_remove(@, sentence)]
         IN  IF Cardinality(sentence.cells) = sentence.count
             THEN mark_loop_in(mark_mines_in(removed, h, order, 1),
                               idx + 1, h, order)
             ELSE IF sentence.count = 0
                  THEN mark_loop_in(mark_safes_in(removed, h, order, 1),
                                    idx + 1, h, order)
                  ELSE mark_loop_in(e, idx + 1, helper, order)

\* add_knowledge, with every set iterated under the given order
add_knowledge_in(e, cell, count, order) ==
    LET e3 == observed(e, cell, count)
        e4 == [e3 EXCEPT !.knowledge = infer(@, 1)]
    IN  IF Len(e4.knowledge) >= MaxKnowledge
        THEN [e4 EXCEPT !.pc = "add_knowledge"]
        ELSE mark_loop_in(e4, 1, {}, order)

\* mutant: the test `safe_move not in self.moves_made` is missing
make_safe_move_any_safe(e) ==
    IF e.safes # {} THEN e.safes ELSE {None}

\* make_safe_move: the first cell of self.safes, in the set's iteration
\* order, that is not a move made; None when the loop finds none
make_safe_move(e) ==
    IF \E safe_move \in e.safes : safe_move \notin e.moves_made
    THEN {safe_move \in e.safes : safe_move \notin e.moves_made}
    ELSE {None}

\* mutant: the test `(x, y) not in self.moves_made` is missing
random_accept_ignore_moves(e, x, y) ==
    <<x, y>> \notin e.mines

\* make_random_move: the test of one iteration of `while 1`
random_accept(e, x, y) ==
    <<x, y>> \notin e.mines /\ <<x, y>> \notin e.moves_made

\* ------------------------------------------------------------ state machine
Init ==
    /\ board \in {b \in SUBSET Cells : Cardinality(b) <= MaxMines}
    /\ moves_made = {}
    /\ mines = {}
    /\ safes = {}
    /\ knowledge = <<>>
    /\ Sentence_mines = {}
    /\ Sentence_safes = {}
    /\ pc = "idle"
    /\ ret = None
    /\ op = "init"
    /\ calls = 0
    /\ B_moves_made = {}
    /\ B_mines = {}
    /\ B_safes = {}
    /\ B_knowledge = <<>>
    /\ sen = None
    /\ arg = None

SetEngine(e) ==
    /\ moves_made' = e.moves_made
    /\ mines' = e.mines
    /\ safes' = e.safes
    /\ knowledge' = e.knowledge
    /\ Sentence_mines' = e.Sentence_mines
    /\ Sentence_safes' = e.Sentence_safes
    /\ pc' = e.pc

\* The board reveals a safe cell that was not revealed before and tells the
\* engine its true number of neighbouring mines.  The cell is the move the
\* engine has just proposed, when it has proposed one, and any cell of the
\* player's choice otherwise.
AddKnowledge(cell) ==
    /\ pc = "idle"
    /\ calls < MaxMoves
    /\ ret = None \/ cell = ret
    /\ cell \notin board
    /\ cell \notin moves_made
    /\ SetEngine(add_knowledge(Engine, cell, nearby_mines(board, cell)))
    /\ calls' = calls + 1
    /\ op' = "add_knowledge"
    /\ ret' = None
    /\ UNCHANGED <<board, bvars, svars>>

\* add_knowledge called again for a cell that is already a move made
AddKnowledgeAgain(cell) ==
    /\ pc = "idle"
    /\ calls < MaxMoves
    /\ ret = None
    /\ cell \notin board
    /\ cell \in moves_made
    /\ SetEngine(add_knowledge(Engine, cell, nearby_mines(board, cell)))
    /\ calls' = calls + 1
    /\ op' = "add_knowledge_again"
    /\ ret' = None
    /\ UNCHANGED <<board, bvars, svars>>

MakeSafeMove ==
    /\ pc = "idle"
    /\ ret' \in make_safe_move(Engine)
    /\ op' = "make_safe_move"
    /\ UNCHANGED <<board, aivars, pc, calls, bvars, svars>>

\* make_random_move is entered ...
MakeRandomMove ==
    /\ pc = "idle"
    /\ pc' = "random"
    /\ ret' = None
    /\ op' = "make_random_move"
    /\ UNCHANGED <<board, aivars, calls, bvars, svars>>

\* ... and draws a cell; it returns the cell if the test accepts it and
\* draws again otherwise
RandomDraw ==
    /\ pc = "random"
    /\ \E x \in 0 .. Height - 1, y \in 0 .. Width - 1 :
          IF random_accept(Engine, x, y)
          THEN /\ ret' = <<x, y>>
               /\ pc' = "idle"
          ELSE UNCHANGED <<ret, pc>>
    /\ UNCHANGED <<board, aivars, op, calls, bvars, svars>>

Next ==
    \/ \E cell \in Cells : AddKnowledge(cell)
    \/ MakeSafeMove
    \/ MakeRandomMove
    \/ RandomDraw

Spec == Init /\ [][Next]_vars

\* The same engine driven by a caller that may also repeat an observation
NextAgain ==
    \/ Next
    \/ \E cell \in Cells : AddKnowledgeAgain(cell)

SpecAgain == Init /\ [][NextAgain]_vars

\* add_knowledge called for a cell that holds a mine: an observation that
\* contradicts the layout (the docstring asks for a safe cell, the code
\* does not test it)
AddKnowledgeMine(cell) ==
    /\ pc = "idle"
    /\ calls < MaxMoves
    /\ ret = None
    /\ cell \in board
    /\ cell \notin moves_made
    /\ SetEngine(add_knowledge(Engine, cell, nearby_mines(board, cell)))
    /\ calls' = calls + 1
    /\ op' = "add_knowledge_mine"
    /\ ret' = None
    /\ UNCHANGED <<board, bvars, svars>>

\* The same engine driven by a caller that may also pass a mine's cell
NextMine ==
    \/ Next
    \/ \E cell \in Cells : AddKnowledgeMine(cell)

SpecMine == Init /\ [][NextMine]_vars

\* A second engine, created by MinesweeperAI(Height, Width) like the first
\* and told about the same layout.  Its fields are its own; the class
\* attributes Sentence.mines and Sentence.safes are those of the one
\* Sentence class.
EngineB ==
    [moves_made |-> B_moves_made, mines |-> B_mines, safes |-> B_safes,
     knowledge |-> B_knowledge,
     Sentence_mines |-> Sentence_mines, Sentence_safes |-> Sentence_safes,
     pc |-> pc]

SetEngineB(e) ==
    /\ B_moves_made' = e.moves_made
    /\ B_mines' = e.mines
    /\ B_safes' = e.safes
    /\ B_knowledge' = e.knowledge
    /\ Sentence_mines' = e.Sentence_mines
    /\ Sentence_safes' = e.Sentence_safes
    /\ pc' = e.pc

B_AddKnowledge(cell) ==
    /\ pc = "idle"
    /\ calls < MaxMoves
    /\ ret = None
    /\ cell \notin board
    /\ cell \notin B_moves_made
    /\ SetEngineB(add_knowledge(EngineB, cell, nearby_mines(board, cell)))
    /\ calls' = calls + 1
    /\ op' = "B.add_knowledge"
    /\ ret' = None
    /\ UNCHANGED <<board, moves_made, mines, safes, knowledge, svars>>

NextTwo ==
    \/ Next
    \/ \E cell \in Cells : B_AddKnowledge(cell)

SpecTwo == Init /\ [][NextTwo]_vars

\* A Sentence object on its own: Sentence(cells, count) is constructed with
\* some of the cells around the corner (0, 0) and a count that these cells
\* can have, and its mark_mine and mark_safe are called with cells of the
\* grid, in any order and any number of times.
InitSentence ==
    /\ board = {}
    /\ moves_made = {}
    /\ mines = {}
    /\ safes = {}
    /\ knowledge = <<>>
    /\ Sentence_mines = {}
    /\ Sentence_safes = {}
    /\ pc = "idle"
    /\ ret = None
    /\ op = "Sentence"
    /\ calls = 0
    /\ B_moves_made = {}
    /\ B_mines = {}
    /\ B_safes = {}
    /\ B_knowledge = <<>>
    /\ \E cells \in SUBSET neighbour_cells(<<0, 0>>, {}) :
       \E count \in 0 .. Cardinality(cells) :
           sen = Sentence(cells, count)
    /\ arg = None

Sentence_MarkMine(cell) ==
    /\ sen' = Sentence_mark_mine(sen, cell)
    /\ Sentence_mines' =
           IF cell \in sen.cells THEN Sentence_mines \cup {cell}
           ELSE Sentence_mines
    /\ arg' = cell
    /\ op' = "Sentence.mark_mine"
    /\ UNCHANGED <<board, moves_made, mines, safes, knowledge,
                   Sentence_safes, pc, ret, calls, bvars>>

Sentence_MarkSafe(cell) ==
    /\ sen' = Sentence_mark_safe(sen, cell)
    /\ Sentence_safes' =
           IF cell \in sen.cells THEN Sentence_safes \cup {cell}
           ELSE Sentence_safes
    /\ arg' = cell
    /\ op' = "Sentence.mark_safe"
    /\ UNCHANGED <<board, moves_made, mines, safes, knowledge,
                   Sentence_mines, pc, ret, calls, bvars>>

NextSentence ==
    \/ \E cell \in Cells : Sentence_MarkMine(cell)
    \/ \E cell \in Cells : Sentence_MarkSafe(cell)

SpecSentence == InitSentence /\ [][NextSentence]_vars

\* random.randint draws every cell of the grid with positive probability, so
\* a draw that the test accepts is not postponed forever
LiveSpec == Spec /\ WF_vars(RandomDraw)

\* ------------------------------------------------------------- properties
KB == {knowledge[i] : i \in 1 .. Len(knowledge)}

\* C1: no cell of known_safe is a mine, every cell of known_mines is a mine,
\* and make_safe_move never returns a mine.
C1_FactSetsSound ==
    /\ safes \cap board = {}
    /\ mines \subseteq board
    /\ (op = "make_safe_move" /\ ret # None) => ret \notin board

\* C2: known_mines and known_safe are disjoint in every reachable state.
C2_MinesSafesDisjoint == mines \cap safes = {}

\* C3: every Sentence of the knowledge base has 0 <= count <= |cells|.
C3_CountInRange ==
    \A i \in 1 .. Len(knowledge) :
        /\ 0 <= knowledge[i].count
        /\ knowledge[i].count <= Cardinality(knowledge[i].cells)

\* Sentence.mark_mine and Sentence.mark_safe have both removed a cell from
\* some Sentence (they record it in the class attributes), and a Sentence
\* that still has cells is in the knowledge base
C3_Witness ==
    /\ op = "add_knowledge"
    /\ Sentence_mines # {}
    /\ Sentence_safes # {}
    /\ \E i \in 1 .. Len(knowledge) : knowledge[i].cells # {}

\* C4: when add_knowledge returns, no Sentence left in the knowledge base
\* has count = 0 or count = |cells|.
C4_FixpointOnReturn ==
    op = "add_knowledge" =>
        \A i \in 1 .. Len(knowledge) :
            /\ knowledge[i].count # 0
            /\ knowledge[i].count # Cardinality(knowledge[i].cells)

\* C5: when add_knowledge returns, for every two Sentences S1, S2 of the
\* knowledge base with S2.cells a proper subset of S1.cells, the Sentence
\* (S1.cells - S2.cells, S1.count - S2.count) has been produced (it is in
\* the knowledge base) or resolved (its cells are known safe when its count
\* is 0, known mines when its count is the number of its cells).
C5_SubsetDerivationDone ==
    op = "add_knowledge" =>
        \A S1 \in KB, S2 \in KB :
            (S2.cells \subseteq S1.cells /\ S2.cells # S1.cells) =>
                LET D == Sentence(S1.cells \ S2.cells, S1.count - S2.count)
                IN  \/ D \in KB
                    \/ D.count = 0 /\ D.cells \subseteq safes
                    \/ D.count = Cardinality(D.cells) /\ D.cells \subseteq mines

\* C6: the knowledge base never holds two equal Sentences.
C6_NoDuplicates ==
    \A i \in 1 .. Len(knowledge), j \in 1 .. Len(knowledge) :
        i # j => knowledge[i] # knowledge[j]

\* C7 (as stated): add_knowledge for a cell already in moves_made changes
\* nothing: moves_made, mines, safes and knowledge are as before the call.
C7_RepeatRejected ==
    [][op' = "add_knowledge_again" =>
          /\ moves_made' = moves_made
          /\ mines' = mines
          /\ safes' = safes
          /\ knowledge' = knowledge]_vars

\* C7 (amended): add_knowledge for a cell already in moves_made is carried
\* out like any other observation; it leaves moves_made as it was and the
\* cell in safes, and mines and safes keep every cell they held.
C7_RepeatKeepsMoves ==
    [][op' = "add_knowledge_again" =>
          /\ moves_made' = moves_made
          /\ mines \subseteq mines'
          /\ safes \subseteq safes'
          /\ \E cell \in moves_made : cell \in safes']_vars

C7_Witness ==
    /\ op = "add_knowledge_again"
    /\ Len(knowledge) >= 2

\* C8: when add_knowledge returns, no Sentence of the knowledge base
\* contains a cell that is in mines or in safes.
C8_KnownCellsResolved ==
    op = "add_knowledge" =>
        \A i \in 1 .. Len(knowledge) :
            knowledge[i].cells \cap (mines \cup safes) = {}

\* C9: make_safe_move returns a cell of safes that is not in moves_made
\* when there is one, and None exactly when there is none.
C9_SafeMoveResult ==
    op = "make_safe_move" =>
        /\ (ret = None) <=> (safes \ moves_made = {})
        /\ (ret # None) => (ret \in safes /\ ret \notin moves_made)

C9_Witness ==
    /\ op = "make_safe_move"
    /\ ret # None
    /\ moves_made # {}
    /\ Cardinality(safes \ moves_made) >= 2

\* C10: make_random_move, called while some cell of the grid is neither a
\* known mine nor a move made, returns, and the cell it returns is in the
\* grid, not in mines and not in moves_made.
Eligible == (Cells \ mines) \ moves_made

C10_RandomMove ==
    /\ (pc = "random" /\ Eligible # {}) ~> (pc = "idle")
    /\ []((op = "make_random_move" /\ pc = "idle") => ret \in Eligible)

C10_Witness ==
    /\ op = "make_random_move"
    /\ pc = "idle"
    /\ ret \in Eligible
    /\ mines # {}
    /\ moves_made # {}

\* C11: every add_knowledge call returns: neither the inference loop, which
\* appends to the knowledge base while iterating over it, nor the marking
\* loop runs without end, whatever the knowledge base and the observation.
C11_AddKnowledgeReturns == pc # "add_knowledge"

\* C12: engines are isolated: no operation on the first engine changes a
\* field of the second engine or a result read through it, the results of
\* known_mines() and known_safes() of the Sentences of its knowledge base
\* included.
C12_EnginesIsolated ==
    [][op' \in {"add_knowledge", "make_safe_move", "make_random_move"} =>
          /\ bvars' = bvars
          /\ \A i \in 1 .. Len(B_knowledge) :
                /\ Sentence_known_mines(B_knowledge[i])'
                       = Sentence_known_mines(B_knowledge[i])
                /\ Sentence_known_safes(B_knowledge[i])'
                       = Sentence_known_safes(B_knowledge[i])]_vars

\* C13: for every Sentence of the engine's knowledge base, known_mines() is
\* the Sentence's cells that are in the engine's mines, and known_safes()
\* the Sentence's cells that are in the engine's safes.
C13_KnownSetsOfEngine ==
    \A i \in 1 .. Len(knowledge) :
        /\ Sentence_known_mines(knowledge[i]) = knowledge[i].cells \cap mines
        /\ Sentence_known_safes(knowledge[i]) = knowledge[i].cells \cap safes

\* C14: replay is deterministic: in a sequence of add_knowledge calls, the
\* same call made on an engine with the same fields gives the same
\* moves_made, mines, safes and knowledge, whatever order the sets are
\* iterated in and whatever an earlier replay has left in the attributes of
\* the Sentence class.  (The move queries change no field, so the steps
\* that follow a query start from the fields of a step that is covered.)
Fields(e) == <<e.moves_made, e.mines, e.safes, e.knowledge>>

C14_ReplayDeterministic ==
    [][(op \in {"init", "add_knowledge"} /\ op' = "add_knowledge") =>
          \A cell \in moves_made' \ moves_made :
              LET count == nearby_mines(board, cell)
                  left == [Engine EXCEPT !.Sentence_mines = Cells,
                                         !.Sentence_safes = Cells]
              IN  /\ \A order \in Orders :
                        Fields(add_knowledge_in(Engine, cell, count, order))
                            = Fields(Engine')
                  /\ Fields(add_knowledge_in(left, cell, count, Descending))
                        = Fields(Engine')]_vars

\* add_knowledge has marked several cells of helper, mines and safe cells
C14_Witness ==
    /\ op = "add_knowledge"
    /\ calls >= 2
    /\ mines # {}
    /\ Cardinality(safes \ moves_made) >= 3

\* C15: mines, safes and moves_made only grow: across every step of every
\* sequence of add_knowledge, make_safe_move and make_random_move calls each
\* of the three sets keeps all the cells it held.
C15_SetsOnlyGrow ==
    [][/\ mines \subseteq mines'
       /\ safes \subseteq safes'
       /\ moves_made \subseteq moves_made']_vars

\* all three sets hold cells, some of them put there by the marking loop,
\* and a further call (here a repeated observation) has been made on them
C15_Witness ==
    /\ op = "add_knowledge_again"
    /\ mines # {}
    /\ Cardinality(moves_made) >= 2
    /\ Cardinality(safes) > Cardinality(moves_made)

\* C16: Sentence.mark_mine and Sentence.mark_safe are idempotent: a second
\* call with the same cell leaves cells and count as the first call left
\* them, and a call with a cell that is not in the Sentence changes neither.
C16_MarkIdempotent ==
    [][/\ op' = "Sentence.mark_mine" =>
             /\ Sentence_mark_mine(sen', arg') = sen'
             /\ arg' \notin sen.cells => sen' = sen
       /\ op' = "Sentence.mark_safe" =>
             /\ Sentence_mark_safe(sen', arg') = sen'
             /\ arg' \notin sen.cells => sen' = sen]_vars

\* mark_mine is called with a cell that an earlier mark_mine removed from
\* the Sentence, and the Sentence still has cells
C16_Witness ==
    /\ op = "Sentence.mark_mine"
    /\ arg \in Sentence_mines
    /\ arg \notin sen.cells
    /\ sen.cells # {}
    /\ Sentence_safes # {}

\* C17: a Sentence that violates the Sentence invariant is not kept: when
\* an elimination or a derivation has produced a Sentence with count < 0,
\* with count > |cells|, or with no cells and a non-zero count, the engine
\* is in an error outcome, not in a state from which it goes on inferring.
\* (Sentence.mark_mine, Sentence.mark_safe and add_knowledge have no assert
\* and no raise, so no step of the model sets pc to "error".)
Invalid(s) ==
    \/ s.count < 0
    \/ s.count > Cardinality(s.cells)
    \/ s.cells = {} /\ s.count # 0

C17_InvalidSentenceFatal ==
    (\E i \in 1 .. Len(knowledge) : Invalid(knowledge[i])) => pc = "error"

\* C18: the Sentence that add_knowledge(cell, n) builds has count n, and
\* its cells are exactly the cells within one row and one column of cell
\* that lie in the grid and are not moves made at that moment; it holds
\* neither the observed cell nor a coordinate outside the grid.
Adjacent(c, d) ==
    /\ c # d
    /\ c[1] - d[1] \in -1 .. 1
    /\ c[2] - d[2] \in -1 .. 1

C18_NewSentence ==
    [][op' = "add_knowledge" =>
          \A cell \in moves_made' \ moves_made :
              LET n == nearby_mines(board, cell)
                  kb == observed(Engine, cell, n).knowledge
                  new == kb[Len(kb)]
              IN  /\ Len(kb) = Len(knowledge) + 1
                  /\ new.count = n
                  /\ new.cells = {c \in Cells : Adjacent(c, cell)} \ moves_made
                  /\ cell \notin new.cells
                  /\ \A c \in new.cells :
                        c[1] \in 0 .. Height - 1 /\ c[2] \in 0 .. Width - 1]_vars

\* a corner, an edge cell and the interior cell have been observed, the
\* later ones with neighbours that were moves made already
C18_Witness ==
    /\ op = "add_knowledge"
    /\ moves_made = {<<0, 0>>, <<0, 1>>, <<1, 1>>}

\* C19: the knowledge base is sound: with observations of safe cells and
\* their true counts, every Sentence of the knowledge base between calls is
\* true of the layout, the number of mines among its cells is its count;
\* Sentences derived by subtraction and Sentences that cells were removed
\* from included.
C19_SentencesTrue ==
    pc # "add_knowledge" =>
        \A i \in 1 .. Len(knowledge) :
            Cardinality(knowledge[i].cells \cap board) = knowledge[i].count

\* after three calls the knowledge base holds several Sentences, one of
\* them reduced to two cells with a mine among them, and safe cells have
\* been removed from Sentences
C19_Witness ==
    /\ op = "add_knowledge"
    /\ calls >= 3
    /\ Sentence_safes # {}
    /\ Len(knowledge) >= 2
    /\ \E i \in 1 .. Len(knowledge) :
          knowledge[i].count = 1 /\ Cardinality(knowledge[i].cells) = 2

\* C20: no Sentence mentions a probed cell: between add_knowledge calls no
\* Sentence of the knowledge base contains a cell of moves_made, and every
\* cell of moves_made is in safes.
C20_NoProbedCell ==
    pc # "add_knowledge" =>
        /\ \A i \in 1 .. Len(knowledge) :
              knowledge[i].cells \cap moves_made = {}
        /\ moves_made \subseteq safes

\* a cell that a Sentence of the knowledge base contained has been observed
\* afterwards, and the knowledge base still holds Sentences with cells
C20_Witness ==
    /\ op = "add_knowledge"
    /\ moves_made \cap Sentence_safes # {}
    /\ Cardinality(moves_made) >= 2
    /\ \E i \in 1 .. Len(knowledge) : Cardinality(knowledge[i].cells) >= 2

====
